---- MODULE Spec2Model ----
(***************************************************************************)
(* Seat allocation of src/testv2.ts: the candidate registry                *)
(* (AspiranteRepository), the program catalog with its per-category        *)
(* capacity counters (AsignacionService.carreras), the automatic batch     *)
(* (ejecutarAsignacionAutomatica) and the manual override                  *)
(* (modificarManualmente) with its observer fan-out (notificar).           *)
(***************************************************************************)
EXTENDS Integers, Sequences, FiniteSets, TLC

(***************************************************************************)
(* Bounds of the model.                                                    *)
(***************************************************************************)
\* candidates registered at most
MaxAspirantes == 2
\* total seats handed to configurarCarrera for MEDICINA (10 in the source),
\* scaled down so that a few candidates exhaust a category
CuposMedicina == 4
\* total seats handed to configurarCarrera for INGENIERIA (15 in the source)
CuposIngenieria == 2

(***************************************************************************)
(* Program constants.                                                      *)
(***************************************************************************)
MinMedicina == 90
MinIngenieria == 80
GrupoMerito == 3
GrupoGeneral == 7

NULL == "null"
UNDEFINED == "undefined"

EstadoCupo == {"PENDIENTE", "ACEPTADO", "RECHAZADO"}

(***************************************************************************)
(* Inputs of the constructor of Aspirante.                                 *)
(***************************************************************************)
NombresSemilla == <<"Ana Garcia", "Luis Pincay", "Maria Shuar", "Jose Zambrano">>
\* the seed of main numbers the candidates 1, 2, ... in registration order;
\* an override may name any of them or the id after the last one
Ids == 1..(MaxAspirantes + 1)
NombreDe(id) == IF id <= Len(NombresSemilla) THEN NombresSemilla[id] ELSE "Kevin Meza"
\* the kinds of candidate of main's seed, one row per kind: the arguments
\* puntaje, carreraDeseada, grupos, tieneTitulo of the constructor.
\* 80 is below MEDICINA's minimum and equal to INGENIERIA's, 90 equals MEDICINA's;
\* "Medicina" is a catalog name in another case, "DERECHO" is not in the catalog;
\* <<3, 2>> gives two priority groups out of order, <<>> none
Semilla ==
    {<<90, "Medicina", <<3, 2>>, FALSE>>,
     <<80, "Medicina", <<>>, FALSE>>,
     <<90, "INGENIERIA", <<3, 2>>, TRUE>>,
     <<80, "INGENIERIA", <<3, 2>>, FALSE>>,
     <<90, "DERECHO", <<>>, FALSE>>}

\* the observer objects of main: the one NotificadorAdmin it constructs
Observadores == {"NotificadorAdmin"}

VARIABLES
    aspirantes,     \* AspiranteRepository.aspirantes: the registered candidates, in order
    carreras,       \* AsignacionService.carreras: key -> {nombre, minPuntaje, segmentos}
    observadores,   \* AsignacionService.observadores, in subscription order
    retorno,        \* value returned by the most recent call
    entregas,       \* IObserver.update invocations made by the most recent call, in order
    traza           \* iterations of the forEach of the most recent batch, in order

vars == <<aspirantes, carreras, observadores, retorno, entregas, traza>>

(***************************************************************************)
(* String.prototype.toUpperCase on the names the model uses.               *)
(***************************************************************************)
ToUpperCase(s) ==
    CASE s = "Medicina" -> "MEDICINA"
      [] s = "medicina" -> "MEDICINA"
      [] s = "Ingenieria" -> "INGENIERIA"
      [] s = "Derecho" -> "DERECHO"
      [] s = "Arte" -> "ARTE"
      [] OTHER -> s

(***************************************************************************)
(* Math.floor(cupos * 0.30) and Math.floor(cupos * 0.70) in IEEE-754       *)
(* doubles.  0.30 is stored as 0.3 - 0.2 * 2^-54 and 0.70 as               *)
(* 0.7 - 0.8 * 2^-54; the product is rounded to nearest (ties to even)     *)
(* before the floor.  The rounded product of cupos * 0.30 never falls      *)
(* below an integer 3*cupos/10; that of cupos * 0.70 does when             *)
(* cupos = 10k and 4k exceeds the largest power of two <= 7k (first at     *)
(* cupos = 90, where 90 * 0.70 = 62.99999999999999).                       *)
(***************************************************************************)
RECURSIVE Pow2Bajo(_)
Pow2Bajo(n) == IF n < 2 THEN 1 ELSE 2 * Pow2Bajo(n \div 2)

MathFloor30(cupos) == (3 * cupos) \div 10

MathFloor70(cupos) ==
    LET k == cupos \div 10
    IN  IF cupos % 10 = 0 /\ k > 0 /\ 4 * k > Pow2Bajo(7 * k)
        THEN 7 * k - 1
        ELSE (7 * cupos) \div 10

(***************************************************************************)
(* Map.prototype.set on a map modelled as a function.                      *)
(***************************************************************************)
MapSet(m, k, v) == [x \in (DOMAIN m) \cup {k} |-> IF x = k THEN v ELSE m[x]]

\* segmentos.get(grupoId) || 0
SegmentoGet(carrera, grupoId) ==
    IF grupoId \in DOMAIN carrera.segmentos THEN carrera.segmentos[grupoId] ELSE 0

(***************************************************************************)
(* AsignacionService.configurarCarrera and the constructor that calls it.  *)
(***************************************************************************)
ConfigurarCarrera(mapa, nombre, cupos, min) ==
    LET s1 == MapSet(<<>>, GrupoMerito, MathFloor30(cupos))
        segmentos == MapSet(s1, GrupoGeneral, MathFloor70(cupos))
    IN  MapSet(mapa, ToUpperCase(nombre),
               [nombre |-> nombre, minPuntaje |-> min, segmentos |-> segmentos])

CarrerasIniciales ==
    ConfigurarCarrera(
        ConfigurarCarrera(<<>>, "MEDICINA", CuposMedicina, MinMedicina),
        "INGENIERIA", CuposIngenieria, MinIngenieria)

(***************************************************************************)
(* Array.prototype.sort: stable; x goes before y when comparator(x,y) < 0. *)
(***************************************************************************)
RECURSIVE InsertarGrupo(_, _)
InsertarGrupo(x, s) ==
    IF s = <<>> THEN <<x>>
    ELSE IF x - Head(s) < 0 THEN <<x>> \o s
    ELSE <<Head(s)>> \o InsertarGrupo(x, Tail(s))

RECURSIVE OrdenarGrupos(_)
OrdenarGrupos(s) ==
    IF s = <<>> THEN <<>>
    ELSE InsertarGrupo(s[Len(s)], OrdenarGrupos(SubSeq(s, 1, Len(s) - 1)))

(***************************************************************************)
(* new Aspirante(id, nombre, puntaje, carreraDeseada, grupos, tieneTitulo) *)
(***************************************************************************)
NuevoAspirante(id, nombre, puntaje, carreraDeseada, grupos, tieneTitulo) ==
    [id |-> id,
     nombre |-> nombre,
     puntaje |-> puntaje,
     carreraDeseada |-> carreraDeseada,
     grupos |-> OrdenarGrupos(IF tieneTitulo THEN <<GrupoGeneral>>
                              ELSE Append(grupos, GrupoGeneral)),
     carreraAsignada |-> NULL,
     grupoAsignadoFinal |-> NULL,
     estadoCupo |-> "PENDIENTE"]

(***************************************************************************)
(* The state after construction of the repository and the service.         *)
(***************************************************************************)
Init ==
    /\ aspirantes = <<>>
    /\ carreras = CarrerasIniciales
    /\ observadores = <<>>
    /\ retorno = UNDEFINED
    /\ entregas = <<>>
    /\ traza = <<>>

\* AspiranteRepository.registrar of a newly constructed candidate
Registrar(id, puntaje, carreraDeseada, grupos, tieneTitulo) ==
    /\ Len(aspirantes) < MaxAspirantes
    /\ aspirantes' = Append(aspirantes,
           NuevoAspirante(id, NombreDe(id), puntaje, carreraDeseada, grupos, tieneTitulo))
    /\ retorno' = UNDEFINED
    /\ entregas' = <<>>
    /\ traza' = <<>>
    /\ UNCHANGED <<carreras, observadores>>

\* AsignacionService.agregarObservador; main subscribes each observer it constructs once
AgregarObservador(o) ==
    /\ \A k \in DOMAIN observadores : observadores[k] # o
    /\ observadores' = Append(observadores, o)
    /\ retorno' = UNDEFINED
    /\ entregas' = <<>>
    /\ traza' = <<>>
    /\ UNCHANGED <<aspirantes, carreras>>

(***************************************************************************)
(* AsignacionService.ejecutarAsignacionAutomatica                          *)
(***************************************************************************)
\* a comparator that ranks the lowest score first
ComparadorAscendente(a, b) == a.puntaje - b.puntaje

\* the comparator of the sort: (a, b) => b.puntaje - a.puntaje
Comparador(a, b) == b.puntaje - a.puntaje

\* a sort that also moves x before an equal y (not stable)
VaAntesInestable(x, y) == Comparador(x, y) <= 0

\* the sort places x before y exactly when comparator(x, y) < 0 (stable sort)
VaAntes(x, y) == Comparador(x, y) < 0

\* the sorted copy holds references: positions of the registry, by score descending
RECURSIVE InsertarAspirante(_, _, _)
InsertarAspirante(i, ord, asps) ==
    IF ord = <<>> THEN <<i>>
    ELSE IF VaAntes(asps[i], asps[Head(ord)]) THEN <<i>> \o ord
    ELSE <<Head(ord)>> \o InsertarAspirante(i, Tail(ord), asps)

RECURSIVE Ordenados(_, _)
Ordenados(n, asps) ==
    IF n = 0 THEN <<>>
    ELSE InsertarAspirante(n, Ordenados(n - 1, asps), asps)

\* puedeAcceder with the test written disponibles >= 0
PuedeAccederConCero(carrera, grupoId) ==
    LET disponibles == SegmentoGet(carrera, grupoId)
    IN  disponibles >= 0

\* CupoValidatorAdapter.puedeAcceder
PuedeAcceder(carrera, grupoId) ==
    LET disponibles == SegmentoGet(carrera, grupoId)
    IN  disponibles > 0

\* the early return without the comparison of the score
RechazableSinPuntaje(mapa, asp) ==
    LET clave == ToUpperCase(asp.carreraDeseada)
    IN  clave \notin DOMAIN mapa

\* the guard of the early return: !carrera || asp.puntaje < carrera.minPuntaje
Rechazable(mapa, asp) ==
    LET clave == ToUpperCase(asp.carreraDeseada)
    IN  \/ clave \notin DOMAIN mapa
        \/ asp.puntaje < mapa[clave].minPuntaje

\* a loop that walks grupos from its last element to its first
RECURSIVE UltimoGrupo(_, _, _)
UltimoGrupo(carrera, grupos, k) ==
    IF k > Len(grupos) THEN 0
    ELSE LET resto == UltimoGrupo(carrera, grupos, k + 1)
         IN  IF resto > 0 THEN resto
             ELSE IF SegmentoGet(carrera, grupos[k]) > 0 THEN k
             ELSE 0

\* position in grupos of the first group the for-of loop finds with capacity, 0 if none
RECURSIVE PrimerGrupo(_, _, _)
PrimerGrupo(carrera, grupos, k) ==
    IF k > Len(grupos) THEN 0
    ELSE IF PuedeAcceder(carrera, grupos[k]) THEN k
    ELSE PrimerGrupo(carrera, grupos, k + 1)

\* `Segmento-${grupoId}`
EtiquetaSegmento(grupoId) == "Segmento-" \o ToString(grupoId)

\* an acceptance that never writes the decremented counter back
ConsumirSinDescontar(carrera, grupoId) == carrera

\* the decrement of the counter found: segmentos.set(grupoId, actual - 1)
Consumir(carrera, grupoId) ==
    LET actual == SegmentoGet(carrera, grupoId)
    IN  [carrera EXCEPT !.segmentos = MapSet(carrera.segmentos, grupoId, actual - 1)]

\* a loop body without the final rejection of line 188
ProcesarSinRechazoFinal(asp, mapa) ==
    IF Rechazable(mapa, asp)
    THEN [asp |-> [asp EXCEPT !.estadoCupo = "RECHAZADO"], carreras |-> mapa, grupo |-> 0]
    ELSE
        LET clave == ToUpperCase(asp.carreraDeseada)
            carrera == mapa[clave]
            k == PrimerGrupo(carrera, asp.grupos, 1)
        IN  IF k > 0
            THEN [asp |-> [asp EXCEPT !.estadoCupo = "ACEPTADO",
                                      !.carreraAsignada = carrera.nombre,
                                      !.grupoAsignadoFinal = EtiquetaSegmento(asp.grupos[k])],
                  carreras |-> [mapa EXCEPT ![clave] = Consumir(carrera, asp.grupos[k])],
                  grupo |-> asp.grupos[k]]
            ELSE [asp |-> asp, carreras |-> mapa, grupo |-> 0]

\* the body of the forEach for one candidate: the candidate and the catalog after it
ProcesarAspirante(asp, mapa) ==
    IF Rechazable(mapa, asp)
    THEN [asp |-> [asp EXCEPT !.estadoCupo = "RECHAZADO"], carreras |-> mapa, grupo |-> 0]
    ELSE
        LET clave == ToUpperCase(asp.carreraDeseada)
            carrera == mapa[clave]
            k == PrimerGrupo(carrera, asp.grupos, 1)
        IN  IF k > 0
            THEN [asp |-> [asp EXCEPT !.estadoCupo = "ACEPTADO",
                                      !.carreraAsignada = carrera.nombre,
                                      !.grupoAsignadoFinal = EtiquetaSegmento(asp.grupos[k])],
                  carreras |-> [mapa EXCEPT ![clave] = Consumir(carrera, asp.grupos[k])],
                  grupo |-> asp.grupos[k]]
            ELSE [asp |-> IF asp.estadoCupo = "PENDIENTE"
                          THEN [asp EXCEPT !.estadoCupo = "RECHAZADO"]
                          ELSE asp,
                  carreras |-> mapa,
                  grupo |-> 0]

\* ordenados.forEach: the registry, the catalog and the iterations made, after the loop
RECURSIVE ForEach(_, _, _, _)
ForEach(ord, asps, mapa, pasos) ==
    IF ord = <<>> THEN [aspirantes |-> asps, carreras |-> mapa, traza |-> pasos]
    ELSE
        LET i == Head(ord)
            r == ProcesarAspirante(asps[i], mapa)
        IN  ForEach(Tail(ord),
                    [asps EXCEPT ![i] = r.asp],
                    r.carreras,
                    Append(pasos, [indice |-> i,
                                   previo |-> asps[i].estadoCupo,
                                   antes |-> mapa,
                                   despues |-> r.carreras,
                                   grupo |-> r.grupo]))

\* a batch that publishes the outcome of its last candidate to the observers
EjecutarNotificando ==
    LET r == ForEach(Ordenados(Len(aspirantes), aspirantes), aspirantes, carreras, <<>>)
    IN  /\ aspirantes' = r.aspirantes
        /\ carreras' = r.carreras
        /\ traza' = r.traza
        /\ retorno' = UNDEFINED
        /\ entregas' = IF r.aspirantes = <<>> THEN <<>>
                       ELSE [k \in 1..Len(observadores) |->
                                [observador |-> observadores[k],
                                 nombre |-> r.aspirantes[Len(r.aspirantes)].nombre,
                                 estado |-> r.aspirantes[Len(r.aspirantes)].estadoCupo,
                                 detalle |-> "Asignación automática"]]
        /\ UNCHANGED observadores

\* main hands the batch the whole registry: ejecutarAsignacionAutomatica(repo.obtenerTodos())
EjecutarAsignacionAutomatica ==
    LET r == ForEach(Ordenados(Len(aspirantes), aspirantes), aspirantes, carreras, <<>>)
    IN  /\ aspirantes' = r.aspirantes
        /\ carreras' = r.carreras
        /\ traza' = r.traza
        /\ retorno' = UNDEFINED
        /\ entregas' = <<>>
        /\ UNCHANGED observadores

(***************************************************************************)
(* AsignacionService.modificarManualmente and notificar                    *)
(***************************************************************************)
\* a lookup that falls back to the first candidate when no id matches
FindODefecto(asps, id, k) ==
    IF \E j \in k..Len(asps) : asps[j].id = id
    THEN CHOOSE j \in k..Len(asps) :
            asps[j].id = id /\ \A h \in k..(j - 1) : asps[h].id # id
    ELSE IF Len(asps) > 0 THEN 1 ELSE 0

\* repo.obtenerTodos().find(a => a.id === id): position of the first match, 0 if none
RECURSIVE Find(_, _, _)
Find(asps, id, k) ==
    IF k > Len(asps) THEN 0
    ELSE IF asps[k].id = id THEN k
    ELSE Find(asps, id, k + 1)

\* the observers agregarObservador accepts (any IObserver): two instances of
\* NotificadorAdmin, whose update prints a line, and one whose update throws
ObservadoresBus == {"NotificadorAdmin", "NotificadorAdmin2", "ObservadorQueFalla"}

\* update of this observer throws
Lanza(o) == o = "ObservadorQueFalla"

\* what a caller gets from a call an exception has left
EXCEPCION == "throw"

\* position of the first observer whose update throws, 0 if none does
PrimeroQueLanza(obs) ==
    IF \E k \in DOMAIN obs : Lanza(obs[k])
    THEN CHOOSE k \in DOMAIN obs :
            Lanza(obs[k]) /\ \A h \in 1..(k - 1) : ~Lanza(obs[h])
    ELSE 0

\* observadores.forEach(o => o.update(asp.nombre, asp.estadoCupo, detalle)): the
\* invocations made, in order; forEach has no try/catch, so the first update
\* that throws is the last invocation
Notificar(obs, asp, detalle) ==
    LET f == PrimeroQueLanza(obs)
        n == IF f = 0 THEN Len(obs) ELSE f
    IN  [k \in 1..n |->
            [observador |-> obs[k], nombre |-> asp.nombre,
             estado |-> asp.estadoCupo, detalle |-> detalle]]

\* the return statement after this.notificar(...): reached only if no update threw
Retornar(obs, valor) == IF PrimeroQueLanza(obs) = 0 THEN valor ELSE EXCEPCION

\* the forced acceptance of lines 198-200
ForzarAceptado(asp, carrera) ==
    [asp EXCEPT !.estadoCupo = "ACEPTADO",
                !.carreraAsignada = carrera.nombre,
                !.grupoAsignadoFinal = "ADMIN_FORZADO"]

\* the fall-through of line 204: asp.estadoCupo = nuevoEstado
CambiarEstado(asp, nuevoEstado) ==
    [asp EXCEPT !.estadoCupo = nuevoEstado]

\* an override whose forced acceptance takes a seat the way the batch does
ModificarConsumiendo(id, nuevoEstado) ==
    LET i == Find(aspirantes, id, 1)
    IN  IF i = 0
        THEN /\ retorno' = "ID no encontrado."
             /\ entregas' = <<>>
             /\ traza' = <<>>
             /\ UNCHANGED <<aspirantes, carreras, observadores>>
        ELSE
            LET asp == aspirantes[i]
                clave == ToUpperCase(asp.carreraDeseada)
            IN  IF nuevoEstado = "ACEPTADO" /\ clave \in DOMAIN carreras
                THEN LET forzado == ForzarAceptado(asp, carreras[clave])
                         k == PrimerGrupo(carreras[clave], asp.grupos, 1)
                     IN  /\ aspirantes' = [aspirantes EXCEPT ![i] = forzado]
                         /\ carreras' = IF k = 0 THEN carreras
                                        ELSE [carreras EXCEPT ![clave] =
                                                 Consumir(carreras[clave], asp.grupos[k])]
                         /\ entregas' = Notificar(observadores, forzado,
                                                  "Asignación manual confirmada")
                         /\ retorno' = Retornar(observadores, "Estado: ACEPTADO.")
                         /\ traza' = <<>>
                         /\ UNCHANGED observadores
                ELSE LET cambiado == CambiarEstado(asp, nuevoEstado)
                     IN  /\ aspirantes' = [aspirantes EXCEPT ![i] = cambiado]
                         /\ entregas' = Notificar(observadores, cambiado,
                                                  "Cambio manual realizado")
                         /\ retorno' = Retornar(observadores, "Estado actualizado.")
                         /\ traza' = <<>>
                         /\ UNCHANGED <<carreras, observadores>>

\* an override that, leaving ACEPTADO, gives back the seat the batch had taken
ModificarDevolviendo(id, nuevoEstado) ==
    LET i == Find(aspirantes, id, 1)
    IN  IF i = 0
        THEN /\ retorno' = "ID no encontrado."
             /\ entregas' = <<>>
             /\ traza' = <<>>
             /\ UNCHANGED <<aspirantes, carreras, observadores>>
        ELSE
            LET asp == aspirantes[i]
                clave == ToUpperCase(asp.carreraDeseada)
            IN  IF nuevoEstado = "ACEPTADO" /\ clave \in DOMAIN carreras
                THEN LET forzado == ForzarAceptado(asp, carreras[clave])
                     IN  /\ aspirantes' = [aspirantes EXCEPT ![i] = forzado]
                         /\ entregas' = Notificar(observadores, forzado,
                                                  "Asignación manual confirmada")
                         /\ retorno' = Retornar(observadores, "Estado: ACEPTADO.")
                         /\ traza' = <<>>
                         /\ UNCHANGED <<carreras, observadores>>
                ELSE LET cambiado == CambiarEstado(asp, nuevoEstado)
                         tomados == IF asp.estadoCupo = "ACEPTADO" /\ clave \in DOMAIN carreras
                                    THEN {g \in DOMAIN carreras[clave].segmentos :
                                             asp.grupoAsignadoFinal = EtiquetaSegmento(g)}
                                    ELSE {}
                     IN  /\ aspirantes' = [aspirantes EXCEPT ![i] = cambiado]
                         /\ carreras' =
                               IF tomados = {} THEN carreras
                               ELSE [carreras EXCEPT ![clave].segmentos =
                                        [g \in DOMAIN @ |->
                                            IF g \in tomados THEN @[g] + 1 ELSE @[g]]]
                         /\ entregas' = Notificar(observadores, cambiado,
                                                  "Cambio manual realizado")
                         /\ retorno' = Retornar(observadores, "Estado actualizado.")
                         /\ traza' = <<>>
                         /\ UNCHANGED observadores

ModificarManualmente(id, nuevoEstado) ==
    LET i == Find(aspirantes, id, 1)
    IN  IF i = 0
        THEN /\ retorno' = "ID no encontrado."
             /\ entregas' = <<>>
             /\ traza' = <<>>
             /\ UNCHANGED <<aspirantes, carreras, observadores>>
        ELSE
            LET asp == aspirantes[i]
                clave == ToUpperCase(asp.carreraDeseada)
            IN  IF nuevoEstado = "ACEPTADO" /\ clave \in DOMAIN carreras
                THEN LET forzado == ForzarAceptado(asp, carreras[clave])
                     IN  /\ aspirantes' = [aspirantes EXCEPT ![i] = forzado]
                         /\ entregas' = Notificar(observadores, forzado,
                                                  "Asignación manual confirmada")
                         /\ retorno' = Retornar(observadores, "Estado: ACEPTADO.")
                         /\ traza' = <<>>
                         /\ UNCHANGED <<carreras, observadores>>
                ELSE LET cambiado == CambiarEstado(asp, nuevoEstado)
                     IN  /\ aspirantes' = [aspirantes EXCEPT ![i] = cambiado]
                         /\ entregas' = Notificar(observadores, cambiado,
                                                  "Cambio manual realizado")
                         /\ retorno' = Retornar(observadores, "Estado actualizado.")
                         /\ traza' = <<>>
                         /\ UNCHANGED <<carreras, observadores>>

(***************************************************************************)
(* Vocabulary of the properties.                                           *)
(***************************************************************************)
\* the category codes named by obtenerNombresGrupos
Categorias == 1..7

\* the category codes a catalog or a candidate can mention
TodosLosGrupos(mapa) ==
    Categorias \cup UNION {DOMAIN mapa[c].segmentos : c \in DOMAIN mapa}

\* elements of a sequence
Elementos(seq) == {seq[k] : k \in DOMAIN seq}

\* the registry holds a candidate with this id
Registrado(id) == \E i \in DOMAIN aspirantes : aspirantes[i].id = id

\* the candidate an override by id reaches: the first one registered with the id
PrimeroCon(id) ==
    CHOOSE i \in DOMAIN aspirantes :
        aspirantes[i].id = id /\ \A j \in 1..(i - 1) : aspirantes[j].id # id

\* the desired program is in the catalog, names compared without regard to case
EnCatalogo(mapa, asp) == ToUpperCase(asp.carreraDeseada) \in DOMAIN mapa

\* the label the batch gives for each category code
EtiquetaEsperada ==
    <<"Segmento-1", "Segmento-2", "Segmento-3", "Segmento-4",
      "Segmento-5", "Segmento-6", "Segmento-7">>

\* the iterations of the most recent batch describe the catalog it left:
\* each one starts from what the previous one left, the last one left carreras
TrazaEncadenada ==
    traza # <<>> =>
        /\ Len(traza) = Len(aspirantes)
        /\ \A k \in 1..(Len(traza) - 1) : traza[k + 1].antes = traza[k].despues
        /\ traza[Len(traza)].despues = carreras

(***************************************************************************)
(* C1: whatever batches and overrides have run, repeated batches over      *)
(* already processed candidates included, the remaining capacity of every  *)
(* category of every program is >= 0.                                      *)
(***************************************************************************)
CapacidadNuncaNegativa ==
    \A c \in DOMAIN carreras :
        \A g \in TodosLosGrupos(carreras) : SegmentoGet(carreras[c], g) >= 0

\* a repeated batch met an already accepted, qualifying candidate whose
\* categories were all at 0, and took nothing
SinCupoEnRepeticion ==
    \E k \in DOMAIN traza :
        LET asp == aspirantes[traza[k].indice]
        IN  /\ traza[k].previo = "ACEPTADO"
            /\ EnCatalogo(traza[k].antes, asp)
            /\ LET carrera == traza[k].antes[ToUpperCase(asp.carreraDeseada)]
               IN  /\ asp.puntaje >= carrera.minPuntaje
                   /\ \A g \in Elementos(asp.grupos) : SegmentoGet(carrera, g) = 0
            /\ traza[k].despues = traza[k].antes

(***************************************************************************)
(* C2: every candidate has a status among Pending, Accepted, Rejected and  *)
(* its assigned program is non-null exactly when its status is Accepted.   *)
(***************************************************************************)
AsignadaSiiAceptado ==
    \A i \in DOMAIN aspirantes :
        /\ aspirantes[i].estadoCupo \in EstadoCupo
        /\ (aspirantes[i].carreraAsignada # NULL) <=> (aspirantes[i].estadoCupo = "ACEPTADO")

(***************************************************************************)
(* C3: the batch rejects every candidate whose desired program is not in   *)
(* the catalog or whose score is strictly below the program's minimum,     *)
(* whatever capacity remains, and changes no counter for it; a candidate   *)
(* the batch gives a seat has a score >= the minimum of its program.       *)
(***************************************************************************)
LoteRechazaSinRequisitos ==
    /\ TrazaEncadenada
    /\ \A k \in DOMAIN traza :
        LET paso == traza[k]
            asp == aspirantes[paso.indice]
            clave == ToUpperCase(asp.carreraDeseada)
            sinRequisitos ==
                \/ ~EnCatalogo(paso.antes, asp)
                \/ asp.puntaje < paso.antes[clave].minPuntaje
        IN  /\ sinRequisitos =>
                /\ asp.estadoCupo = "RECHAZADO"
                /\ paso.grupo = 0
                /\ paso.despues = paso.antes
            /\ paso.grupo # 0 =>
                /\ EnCatalogo(paso.antes, asp)
                /\ asp.puntaje >= paso.antes[clave].minPuntaje
                /\ asp.estadoCupo = "ACEPTADO"

\* the batch rejected a candidate below the minimum while its program had a seat for it
RechazadoPorPuntajeConCupo ==
    \E k \in DOMAIN traza :
        LET paso == traza[k]
            asp == aspirantes[paso.indice]
            clave == ToUpperCase(asp.carreraDeseada)
        IN  /\ EnCatalogo(paso.antes, asp)
            /\ asp.carreraDeseada # clave
            /\ asp.puntaje < paso.antes[clave].minPuntaje
            /\ \E g \in Elementos(asp.grupos) : SegmentoGet(paso.antes[clave], g) > 0
            /\ asp.estadoCupo = "RECHAZADO"

(***************************************************************************)
(* C4: after one batch over candidates that were all Pending, started from *)
(* the capacities as configured, the number of candidates Accepted under   *)
(* each category of each program equals configured minus remaining         *)
(* capacity, and is at most the configured capacity.                       *)
(***************************************************************************)
LoteSobreEstadoFresco ==
    /\ traza # <<>>
    /\ traza[1].antes = CarrerasIniciales
    /\ \A k \in DOMAIN traza : traza[k].previo = "PENDIENTE"

AceptadosEn(c, g) ==
    {i \in DOMAIN aspirantes :
        /\ aspirantes[i].estadoCupo = "ACEPTADO"
        /\ aspirantes[i].carreraAsignada = carreras[c].nombre
        /\ g \in DOMAIN EtiquetaEsperada
        /\ aspirantes[i].grupoAsignadoFinal = EtiquetaEsperada[g]}

ConservacionDeCupos ==
    LoteSobreEstadoFresco =>
        \A c \in DOMAIN carreras :
            \A g \in TodosLosGrupos(carreras) :
                LET configurado == SegmentoGet(CarrerasIniciales[c], g)
                IN  /\ Cardinality(AceptadosEn(c, g))
                          = configurado - SegmentoGet(carreras[c], g)
                    /\ Cardinality(AceptadosEn(c, g)) <= configurado

\* a fresh batch that filled a category and left a qualifying candidate without a seat
LoteFrescoAgotaCategoria ==
    /\ LoteSobreEstadoFresco
    /\ \E c \in DOMAIN carreras :
        /\ SegmentoGet(CarrerasIniciales[c], GrupoGeneral) > 0
        /\ SegmentoGet(carreras[c], GrupoGeneral) = 0
        /\ \E i \in DOMAIN aspirantes :
            /\ ToUpperCase(aspirantes[i].carreraDeseada) = c
            /\ aspirantes[i].puntaje >= carreras[c].minPuntaje
            /\ aspirantes[i].estadoCupo = "RECHAZADO"

(***************************************************************************)
(* C5: an override, for every id and every new status, leaves every        *)
(* capacity counter of every program as it was; an override to Accepted of *)
(* a registered candidate whose program is in the catalog sets the status  *)
(* to Accepted, the assigned program to that program's name and the label  *)
(* to the admin-forced sentinel, also when the program has no seat left.   *)
(***************************************************************************)
ModificarNoTocaCupos ==
    [][/\ carreras' = carreras
            \/ \A id \in Ids : \A e \in EstadoCupo : ~ModificarManualmente(id, e)
       /\ \A id \in Ids :
            (/\ Registrado(id)
             /\ EnCatalogo(carreras, aspirantes[PrimeroCon(id)])
             /\ ModificarManualmente(id, "ACEPTADO")) =>
                LET i == PrimeroCon(id)
                    carrera == carreras[ToUpperCase(aspirantes[i].carreraDeseada)]
                IN  /\ aspirantes'[i].estadoCupo = "ACEPTADO"
                    /\ aspirantes'[i].carreraAsignada = carrera.nombre
                    /\ aspirantes'[i].grupoAsignadoFinal = "ADMIN_FORZADO"
                    /\ retorno' = "Estado: ACEPTADO."
                    /\ carreras' = carreras]_vars

\* a forced acceptance into a program whose categories are all at 0: the program
\* has more Accepted candidates than the seats it was configured with
ForzadoSinCupos ==
    /\ retorno = "Estado: ACEPTADO."
    /\ \E i \in DOMAIN aspirantes :
        LET c == ToUpperCase(aspirantes[i].carreraDeseada)
        IN  /\ aspirantes[i].grupoAsignadoFinal = "ADMIN_FORZADO"
            /\ aspirantes[i].estadoCupo = "ACEPTADO"
            /\ c \in DOMAIN carreras
            /\ \A g \in TodosLosGrupos(carreras) : SegmentoGet(carreras[c], g) = 0
            /\ Cardinality({j \in DOMAIN aspirantes :
                    /\ aspirantes[j].estadoCupo = "ACEPTADO"
                    /\ aspirantes[j].carreraAsignada = carreras[c].nombre})
                 > SegmentoGet(CarrerasIniciales[c], GrupoMerito)
                     + SegmentoGet(CarrerasIniciales[c], GrupoGeneral)

(***************************************************************************)
(* C6: the batch processes candidates by descending score and candidates   *)
(* of equal score in registration order; of two candidates of equal score  *)
(* desiring the same program, the later registered one gets a seat of a    *)
(* category of the earlier one only if the earlier one got a seat of that  *)
(* category or a lower-numbered one, and never the last seat of a category *)
(* the earlier one took.                                                   *)
(***************************************************************************)
\* position in the trace of the iteration for candidate i
PasoDe(i) == CHOOSE k \in DOMAIN traza : traza[k].indice = i

OrdenDelLote ==
    traza # <<>> =>
        /\ \A i \in DOMAIN aspirantes : \E k \in DOMAIN traza : traza[k].indice = i
        /\ \A k \in DOMAIN traza : \A l \in DOMAIN traza :
            k < l =>
                LET a == aspirantes[traza[k].indice]
                    b == aspirantes[traza[l].indice]
                IN  \/ a.puntaje > b.puntaje
                    \/ a.puntaje = b.puntaje /\ traza[k].indice < traza[l].indice
        /\ \A i \in DOMAIN aspirantes : \A j \in DOMAIN aspirantes :
            (/\ i < j
             /\ aspirantes[i].puntaje = aspirantes[j].puntaje
             /\ ToUpperCase(aspirantes[i].carreraDeseada)
                    = ToUpperCase(aspirantes[j].carreraDeseada)) =>
                LET pi == traza[PasoDe(i)]
                    pj == traza[PasoDe(j)]
                    c == ToUpperCase(aspirantes[i].carreraDeseada)
                IN  /\ (pj.grupo # 0 /\ pj.grupo \in Elementos(aspirantes[i].grupos)) =>
                            (pi.grupo # 0 /\ pi.grupo <= pj.grupo)
                    /\ (pi.grupo # 0 /\ SegmentoGet(pi.antes[c], pi.grupo) = 1) =>
                            pj.grupo # pi.grupo

\* two candidates of equal score wanted the last seat of the same category of the
\* same program: the earlier registered has it, the later one was left without
EmpatePorUltimoCupo ==
    /\ traza # <<>>
    /\ \E i \in DOMAIN aspirantes : \E j \in DOMAIN aspirantes :
        /\ i < j
        /\ aspirantes[i].puntaje = aspirantes[j].puntaje
        /\ ToUpperCase(aspirantes[i].carreraDeseada) = ToUpperCase(aspirantes[j].carreraDeseada)
        /\ traza[PasoDe(i)].previo = "PENDIENTE"
        /\ traza[PasoDe(j)].previo = "PENDIENTE"
        /\ LET pi == traza[PasoDe(i)]
               c == ToUpperCase(aspirantes[i].carreraDeseada)
           IN  /\ pi.grupo # 0
               /\ SegmentoGet(pi.antes[c], pi.grupo) = 1
               /\ pi.grupo \in Elementos(aspirantes[j].grupos)
               /\ aspirantes[i].estadoCupo = "ACEPTADO"
               /\ aspirantes[j].estadoCupo = "RECHAZADO"

(***************************************************************************)
(* C7: a candidate the batch gives a seat takes it from the lowest-numbered *)
(* category of its list that had capacity > 0 in the desired program when  *)
(* the candidate was processed: that counter drops by exactly 1, no other  *)
(* counter changes, the label names that category, and the general         *)
(* category is used only when every lower-numbered category of the         *)
(* candidate had no capacity.                                              *)
(***************************************************************************)
AsientoDeLaPrimeraCategoria ==
    /\ TrazaEncadenada
    /\ \A k \in DOMAIN traza :
        LET paso == traza[k]
            asp == aspirantes[paso.indice]
            c == ToUpperCase(asp.carreraDeseada)
        IN  paso.grupo # 0 =>
                /\ paso.grupo \in Elementos(asp.grupos)
                /\ SegmentoGet(paso.antes[c], paso.grupo) > 0
                /\ \A h \in Elementos(asp.grupos) :
                        h < paso.grupo => SegmentoGet(paso.antes[c], h) = 0
                /\ \A d \in DOMAIN paso.antes : \A h \in TodosLosGrupos(paso.antes) :
                        SegmentoGet(paso.despues[d], h)
                            = SegmentoGet(paso.antes[d], h)
                                - (IF d = c /\ h = paso.grupo THEN 1 ELSE 0)
                /\ asp.estadoCupo = "ACEPTADO"
                /\ asp.carreraAsignada = paso.antes[c].nombre
                /\ asp.grupoAsignadoFinal = EtiquetaEsperada[paso.grupo]

\* one batch seated a candidate in the merit category and another, who also
\* lists merit, in the general category because merit had nothing left
GeneralPorMeritoAgotado ==
    \E k \in DOMAIN traza : \E l \in DOMAIN traza :
        LET asp == aspirantes[traza[l].indice]
            c == ToUpperCase(asp.carreraDeseada)
        IN  /\ traza[k].grupo = GrupoMerito
            /\ traza[l].grupo = GrupoGeneral
            /\ GrupoMerito \in Elementos(asp.grupos)
            /\ SegmentoGet(CarrerasIniciales[c], GrupoMerito) > 0
            /\ SegmentoGet(traza[l].antes[c], GrupoMerito) = 0
            /\ asp.grupoAsignadoFinal = "Segmento-7"

(***************************************************************************)
(* C8: the batch takes capacity only for candidates that are Pending when  *)
(* it is called: a candidate already Accepted or Rejected keeps its status *)
(* and assignment and takes no seat, so a second batch over processed      *)
(* candidates changes no counter and no candidate.                         *)
(***************************************************************************)
LoteSoloPendientes ==
    [][EjecutarAsignacionAutomatica =>
          /\ \A k \in DOMAIN traza' :
                aspirantes[traza'[k].indice].estadoCupo # "PENDIENTE" =>
                    /\ traza'[k].despues = traza'[k].antes
                    /\ aspirantes'[traza'[k].indice] = aspirantes[traza'[k].indice]
          /\ (\A i \in DOMAIN aspirantes : aspirantes[i].estadoCupo # "PENDIENTE") =>
                (carreras' = carreras /\ aspirantes' = aspirantes)]_vars

(***************************************************************************)
(* C9: an override of a registered candidate to Pending or Rejected, from  *)
(* any prior state, sets the status to the new status and sets the         *)
(* assigned program and the assigned label to null.                        *)
(***************************************************************************)
ModificarLimpiaAsignacion ==
    [][\A id \in Ids : \A e \in EstadoCupo \ {"ACEPTADO"} :
          (Registrado(id) /\ ModificarManualmente(id, e)) =>
              LET i == PrimeroCon(id)
              IN  /\ aspirantes'[i].estadoCupo = e
                  /\ aspirantes'[i].carreraAsignada = NULL
                  /\ aspirantes'[i].grupoAsignadoFinal = NULL]_vars

(***************************************************************************)
(* C10: an override with an id no registered candidate has returns the     *)
(* not-found result and changes nothing: no candidate, no capacity         *)
(* counter, and no observer is invoked.                                    *)
(***************************************************************************)
ModificarIdDesconocido ==
    [][\A id \in Ids : \A e \in EstadoCupo :
          (~Registrado(id) /\ ModificarManualmente(id, e)) =>
              /\ retorno' = "ID no encontrado."
              /\ aspirantes' = aspirantes
              /\ carreras' = carreras
              /\ observadores' = observadores
              /\ entregas' = <<>>]_vars

\* an unknown id was refused while a candidate and an observer were registered
NoEncontradoConObservador ==
    /\ retorno = "ID no encontrado."
    /\ entregas = <<>>
    /\ aspirantes # <<>>
    /\ observadores # <<>>

(***************************************************************************)
(* C11: the batch never invokes an observer. Every observer invocation is  *)
(* made by an override that found its candidate: a call that was a         *)
(* registration, a subscription or a batch leaves no invocation, so a run  *)
(* made only of those produces none.                                       *)
(***************************************************************************)
LoteNoNotifica ==
    /\ traza # <<>> => entregas = <<>>
    /\ retorno = UNDEFINED => entregas = <<>>
    /\ entregas # <<>> =>
          /\ traza = <<>>
          /\ retorno \notin {UNDEFINED, "ID no encontrado."}
          /\ aspirantes # <<>>

\* a batch has just seated a candidate while an observer was subscribed
LoteConObservadorCallado ==
    /\ traza # <<>>
    /\ observadores # <<>>
    /\ \E k \in DOMAIN traza :
          /\ traza[k].grupo # 0
          /\ aspirantes[traza[k].indice].estadoCupo = "ACEPTADO"
    /\ entregas = <<>>

(***************************************************************************)
(* C12: every override of a registered candidate publishes one             *)
(* notification after the status is updated: every subscribed observer is  *)
(* invoked exactly once, in subscription order, with the candidate's name  *)
(* and its new status; the detail is the manual-confirmation text when the *)
(* candidate was forced into a program found in the catalog, the           *)
(* manual-change text otherwise.                                           *)
(***************************************************************************)
NotificacionUnicaEnOrden ==
    [][\A id \in Ids, e \in EstadoCupo :
          (Registrado(id) /\ ModificarManualmente(id, e)) =>
              LET i == PrimeroCon(id)
              IN  /\ aspirantes'[i].estadoCupo = e
                  /\ Len(entregas') = Len(observadores)
                  /\ \A k \in DOMAIN observadores :
                        entregas'[k] =
                            [observador |-> observadores[k],
                             nombre |-> aspirantes[i].nombre,
                             estado |-> e,
                             detalle |-> IF e = "ACEPTADO" /\ EnCatalogo(carreras, aspirantes[i])
                                         THEN "Asignación manual confirmada"
                                         ELSE "Cambio manual realizado"]]_vars

(***************************************************************************)
(* C13: when an observer throws during the publication of an override,     *)
(* every observer subscribed after it is still invoked and the override    *)
(* still completes and returns its result string.                          *)
(***************************************************************************)
FalloDeObservadorAislado ==
    (/\ retorno \notin {UNDEFINED, "ID no encontrado."}
     /\ \E k \in DOMAIN observadores : Lanza(observadores[k])) =>
        /\ \A k \in DOMAIN observadores :
              \E j \in DOMAIN entregas : entregas[j].observador = observadores[k]
        /\ retorno \in {"Estado: ACEPTADO.", "Estado actualizado."}

\* the candidate of this iteration of the most recent batch desired a program of
\* the catalog with a qualifying score, and no category of its list had capacity
SinCupoEnPaso(k) ==
    LET asp == aspirantes[traza[k].indice]
    IN  /\ EnCatalogo(traza[k].antes, asp)
        /\ asp.puntaje >= traza[k].antes[ToUpperCase(asp.carreraDeseada)].minPuntaje
        /\ traza[k].grupo = 0

(***************************************************************************)
(* C15, as stated: after a batch, every candidate whose program exists and *)
(* whose score qualifies but for whom no category yielded capacity is      *)
(* Rejected, whatever its status was before; no candidate is left Pending. *)
(***************************************************************************)
SinCupoSiempreRechaza ==
    traza # <<>> =>
        /\ \A k \in DOMAIN traza :
              SinCupoEnPaso(k) => aspirantes[traza[k].indice].estadoCupo = "RECHAZADO"
        /\ \A i \in DOMAIN aspirantes : aspirantes[i].estadoCupo # "PENDIENTE"

(***************************************************************************)
(* C15, amended: after a batch, a qualifying candidate for whom no         *)
(* category yielded capacity is Rejected if it was Pending before the      *)
(* batch and keeps the status it had otherwise (an Accepted one stays      *)
(* Accepted); no candidate is left Pending.                                *)
(***************************************************************************)
SinCupoRechazaPendiente ==
    traza # <<>> =>
        /\ \A k \in DOMAIN traza :
              SinCupoEnPaso(k) =>
                  aspirantes[traza[k].indice].estadoCupo =
                      IF traza[k].previo = "PENDIENTE" THEN "RECHAZADO"
                      ELSE traza[k].previo
        /\ \A i \in DOMAIN aspirantes : aspirantes[i].estadoCupo # "PENDIENTE"

\* one batch found no capacity for a Pending candidate, now Rejected, and for an
\* Accepted one, still Accepted
SinCupoPendienteYAceptado ==
    /\ traza # <<>>
    /\ \E k, h \in DOMAIN traza :
          /\ SinCupoEnPaso(k) /\ traza[k].previo = "PENDIENTE"
          /\ aspirantes[traza[k].indice].estadoCupo = "RECHAZADO"
          /\ SinCupoEnPaso(h) /\ traza[h].previo = "ACEPTADO"
          /\ aspirantes[traza[h].indice].estadoCupo = "ACEPTADO"

(***************************************************************************)
(* C16: across any sequence of batches and overrides no capacity counter   *)
(* of any program ever increases; an override that did not force an        *)
(* acceptance (to Rejected or to Pending, of an automatically Accepted     *)
(* candidate as of any other) leaves every counter as it was, so the seat  *)
(* the batch consumed stays consumed.                                      *)
(***************************************************************************)
CuposNoAumentan ==
    [][/\ \A c \in DOMAIN carreras :
             /\ c \in DOMAIN carreras'
             /\ \A g \in DOMAIN carreras[c].segmentos :
                   SegmentoGet(carreras'[c], g) <= SegmentoGet(carreras[c], g)
       /\ retorno' = "Estado actualizado." => carreras' = carreras]_vars

\* a candidate the batch seated has just been overridden out of ACEPTADO, and
\* the category of its seat is still below its configured capacity
AsientoNoDevuelto ==
    /\ retorno = "Estado actualizado."
    /\ entregas # <<>>
    /\ \E i \in DOMAIN aspirantes :
          LET asp == aspirantes[i]
              clave == ToUpperCase(asp.carreraDeseada)
          IN  /\ entregas[1].nombre = asp.nombre
              /\ asp.estadoCupo \in {"RECHAZADO", "PENDIENTE"}
              /\ clave \in DOMAIN carreras
              /\ \E g \in DOMAIN carreras[clave].segmentos :
                    /\ asp.grupoAsignadoFinal = EtiquetaSegmento(g)
                    /\ SegmentoGet(carreras[clave], g) <
                           SegmentoGet(CarrerasIniciales[clave], g)

(***************************************************************************)
(* The constructor of Aspirante over every list of category codes.         *)
(***************************************************************************)
\* longest list of category codes handed to the constructor
MaxGrupos == 2

\* category codes handed to the constructor: a priority group, merit, general
CodigosCtor == {2, GrupoMerito, GrupoGeneral}

\* the lists handed to the constructor, in any order and with repetitions
GruposCtor == UNION {[1..n -> CodigosCtor] : n \in 0..MaxGrupos}

\* the list is strictly ascending, so without repetition
EstrictamenteAscendente(seq) ==
    \A k \in 1..(Len(seq) - 1) : seq[k] < seq[k + 1]

(***************************************************************************)
(* C17: the category list of every constructed candidate is strictly       *)
(* ascending, without repetition, and ends with 7, for every list handed   *)
(* to the constructor, one that holds 7 or repeats a code included; with   *)
(* the exemption flag the list is exactly <<7>>, so that the batch seats   *)
(* such a candidate in the general category only.                          *)
(***************************************************************************)
GruposAscendentesSinRepetir ==
    [][/\ \A c \in {"MEDICINA", "INGENIERIA"}, g \in GruposCtor, t \in BOOLEAN :
             Registrar(Len(aspirantes) + 1, MinMedicina, c, g, t) =>
                 LET nuevo == aspirantes'[Len(aspirantes')]
                 IN  /\ EstrictamenteAscendente(nuevo.grupos)
                     /\ nuevo.grupos # <<>>
                     /\ nuevo.grupos[Len(nuevo.grupos)] = GrupoGeneral
                     /\ t => nuevo.grupos = <<GrupoGeneral>>
       /\ \A k \in DOMAIN traza' :
             aspirantes'[traza'[k].indice].grupos = <<GrupoGeneral>> =>
                 traza'[k].grupo \in {0, GrupoGeneral}]_vars

(***************************************************************************)
(* configurarCarrera over every total of seats.                            *)
(***************************************************************************)
\* largest total of seats handed to configurarCarrera
MaxCupos == 100

\* this.configurarCarrera(nombre, cupos, min), called while the service is set up
Configurar(nombre, cupos, min) ==
    /\ aspirantes = <<>>
    /\ carreras' = ConfigurarCarrera(carreras, nombre, cupos, min)
    /\ retorno' = UNDEFINED
    /\ entregas' = <<>>
    /\ traza' = <<>>
    /\ UNCHANGED <<aspirantes, observadores>>

\* the service before its constructor has configured a program
InitConfig ==
    /\ aspirantes = <<>>
    /\ carreras = <<>>
    /\ observadores = <<>>
    /\ retorno = UNDEFINED
    /\ entregas = <<>>
    /\ traza = <<>>

(***************************************************************************)
(* C18: configuring a program with n seats stores floor(3n/10) for merit   *)
(* (3) and floor(7n/10) for general (7) and leaves every other category at *)
(* 0, so merit + general <= n, possibly below n (10 gives 3 and 7, 15      *)
(* gives 4 and 10); the batch never accepts a candidate under a category   *)
(* other than 3 or 7.                                                      *)
(***************************************************************************)
RepartoDeCupos ==
    [][/\ \A n \in 0..MaxCupos :
             Configurar("MEDICINA", n, MinMedicina) =>
                 LET carrera == carreras'["MEDICINA"]
                 IN  /\ \A g \in Categorias :
                           SegmentoGet(carrera, g) =
                               IF g = GrupoMerito THEN (3 * n) \div 10
                               ELSE IF g = GrupoGeneral THEN (7 * n) \div 10
                               ELSE 0
                     /\ SegmentoGet(carrera, GrupoMerito)
                           + SegmentoGet(carrera, GrupoGeneral) <= n
                     /\ n = 15 => SegmentoGet(carrera, GrupoMerito)
                                    + SegmentoGet(carrera, GrupoGeneral) = 14
       /\ \A k \in DOMAIN traza' :
             traza'[k].grupo \in {0, GrupoMerito, GrupoGeneral}]_vars

\* the most recent call was a batch over candidates that were all Pending
LoteSobrePendientes ==
    /\ traza # <<>>
    /\ \A k \in DOMAIN traza : traza[k].previo = "PENDIENTE"

(***************************************************************************)
(* C19: after one batch over candidates that were all Pending, if X was    *)
(* Accepted into a program under category c, every candidate Y desiring    *)
(* the same program with a strictly higher score and c in its list is      *)
(* Accepted too; equivalently, a qualifying candidate is Rejected for lack *)
(* of capacity only if every category of its list had capacity 0 when it   *)
(* was processed.                                                          *)
(***************************************************************************)
PrioridadPorPuntaje ==
    LoteSobrePendientes =>
        /\ \A kx, ky \in DOMAIN traza :
              LET x == aspirantes[traza[kx].indice]
                  y == aspirantes[traza[ky].indice]
              IN  (/\ traza[kx].grupo # 0
                   /\ ToUpperCase(y.carreraDeseada) = ToUpperCase(x.carreraDeseada)
                   /\ y.puntaje > x.puntaje
                   /\ traza[kx].grupo \in Elementos(y.grupos)) =>
                      /\ y.estadoCupo = "ACEPTADO"
                      /\ traza[ky].grupo # 0
        /\ \A k \in DOMAIN traza :
              LET asp == aspirantes[traza[k].indice]
              IN  (SinCupoEnPaso(k) /\ asp.estadoCupo = "RECHAZADO") =>
                      \A g \in Elementos(asp.grupos) :
                          SegmentoGet(traza[k].antes[ToUpperCase(asp.carreraDeseada)], g) = 0

\* one batch over Pending candidates gave the last seat of a category to the
\* higher score and rejected a qualifying lower score that lists the category
MayorPuntajeTomaElUltimoCupo ==
    /\ LoteSobrePendientes
    /\ \E kx, ky \in DOMAIN traza :
          LET x == aspirantes[traza[kx].indice]
              y == aspirantes[traza[ky].indice]
          IN  /\ ToUpperCase(y.carreraDeseada) = ToUpperCase(x.carreraDeseada)
              /\ y.puntaje > x.puntaje
              /\ ky < kx
              /\ traza[ky].grupo # 0
              /\ y.estadoCupo = "ACEPTADO"
              /\ traza[ky].grupo \in Elementos(x.grupos)
              /\ SinCupoEnPaso(kx)
              /\ x.estadoCupo = "RECHAZADO"

(***************************************************************************)
(* The single-pool variant (src/unnamed/part_000): one count of seats per  *)
(* program, every change of status made through procesarEstado.            *)
(***************************************************************************)
\* seats of each program of the single-pool catalog
CuposPoolCivil == 1
CuposPoolMedicina == 2
CuposPoolDerecho == 1

MinPoolCivil == 80
MinPoolMedicina == 90
MinPoolDerecho == 85

\* public carreras: Record<string, ICarrera>
CarrerasPool ==
    [c \in {"INGENIERÍA CIVIL", "MEDICINA", "DERECHO"} |->
        [nombre |-> c,
         cupos |-> CASE c = "INGENIERÍA CIVIL" -> CuposPoolCivil
                     [] c = "MEDICINA" -> CuposPoolMedicina
                     [] OTHER -> CuposPoolDerecho,
         minPuntaje |-> CASE c = "INGENIERÍA CIVIL" -> MinPoolCivil
                          [] c = "MEDICINA" -> MinPoolMedicina
                          [] OTHER -> MinPoolDerecho]]

\* new Aspirante(nombre, apellido, cedula, puntaje, carreraDeseada)
AspirantePool(nombre, apellido, cedula, puntaje, carreraDeseada) ==
    [nombre |-> nombre, apellido |-> apellido, cedula |-> cedula,
     puntaje |-> puntaje, carreraDeseada |-> carreraDeseada,
     carreraAsignada |-> NULL, estadoCupo |-> "PENDIENTE"]

\* the program names an administrator can type, none (undefined) and "" included
NombresCarrera ==
    {UNDEFINED, "", "Medicina", "DERECHO", "INGENIERÍA CIVIL", "Arte"}

\* main up to its loop: the observer subscribed, the two seed candidates registered
InitPool ==
    /\ aspirantes = <<AspirantePool("Jover", "Moreira", "1301", 95, "MEDICINA"),
                      AspirantePool("Kevin", "Pinkay", "1302", 75, "DERECHO")>>
    /\ carreras = CarrerasPool
    /\ observadores = <<"NotificadorAdmin">>
    /\ retorno = UNDEFINED
    /\ entregas = <<>>
    /\ traza = <<>>

\* ValidadorAdapter.validar
Validar(aspirante, carrera) ==
    IF aspirante.puntaje < carrera.minPuntaje THEN FALSE
    ELSE IF carrera.cupos <= 0 THEN FALSE
    ELSE TRUE

\* this.observadores.forEach(o => o.update(nombre, estado))
NotificarEstado(obs, nombre, estado) ==
    [k \in 1..Len(obs) |-> [observador |-> obs[k], nombre |-> nombre, estado |-> estado]]

\* AsignacionService.procesarEstado(aspirante, nuevoEstado, nombreCarrera?), on
\* the candidate at position i of obtenerTodos()
ProcesarEstado(i, nuevoEstado, nombreCarrera) ==
    LET aspirante == aspirantes[i]
        despues ==
            IF nuevoEstado = "ACEPTADO" /\ nombreCarrera \notin {UNDEFINED, ""}
            THEN LET clave == ToUpperCase(nombreCarrera)
                 IN  IF clave \in DOMAIN carreras /\ Validar(aspirante, carreras[clave])
                     THEN [asp |-> [aspirante EXCEPT
                                       !.carreraAsignada = carreras[clave].nombre,
                                       !.estadoCupo = "ACEPTADO"],
                           carreras |-> [carreras EXCEPT ![clave].cupos = @ - 1]]
                     ELSE [asp |-> aspirante, carreras |-> carreras]
            ELSE [asp |-> [aspirante EXCEPT !.estadoCupo = nuevoEstado,
                                            !.carreraAsignada = NULL],
                  carreras |-> carreras]
    IN  /\ aspirantes' = [aspirantes EXCEPT ![i] = despues.asp]
        /\ carreras' = despues.carreras
        /\ entregas' = NotificarEstado(observadores, despues.asp.nombre,
                                       despues.asp.estadoCupo)
        /\ retorno' = UNDEFINED
        /\ traza' = <<>>
        /\ UNCHANGED observadores

(***************************************************************************)
(* C20: in the single-pool variant, across any sequence of procesarEstado  *)
(* calls with any arguments (no program name, an empty or an unknown one   *)
(* included), a candidate's status becomes ACEPTADO only in a call that    *)
(* named a program of the catalog for which the score reaches the minimum  *)
(* and a seat was left, and that call assigns that program to the          *)
(* candidate and takes exactly one seat from it; the seats of every        *)
(* program stay >= 0.                                                      *)
(***************************************************************************)
AceptadoSoloConCupo ==
    [][/\ \A i \in DOMAIN aspirantes :
             (/\ aspirantes[i].estadoCupo # "ACEPTADO"
              /\ aspirantes'[i].estadoCupo = "ACEPTADO") =>
                 \E c \in DOMAIN carreras :
                     /\ aspirantes[i].puntaje >= carreras[c].minPuntaje
                     /\ carreras[c].cupos > 0
                     /\ aspirantes'[i].carreraAsignada = carreras[c].nombre
                     /\ carreras'[c].cupos = carreras[c].cupos - 1
       /\ \A c \in DOMAIN carreras' : carreras'[c].cupos >= 0]_vars

Next ==
    \/ \E a \in Semilla : Registrar(Len(aspirantes) + 1, a[1], a[2], a[3], a[4])
    \/ \E o \in Observadores : AgregarObservador(o)
    \/ EjecutarAsignacionAutomatica
    \/ \E id \in Ids, e \in EstadoCupo : ModificarManualmente(id, e)

Spec == Init /\ [][Next]_vars
\* the service with any IObserver subscribed, in any order
NextBus ==
    \/ \E a \in Semilla : Registrar(Len(aspirantes) + 1, a[1], a[2], a[3], a[4])
    \/ \E o \in ObservadoresBus : AgregarObservador(o)
    \/ EjecutarAsignacionAutomatica
    \/ \E id \in Ids, e \in EstadoCupo : ModificarManualmente(id, e)

SpecBus == Init /\ [][NextBus]_vars
\* candidates constructed from every list of category codes, and the batch over them
NextCtor ==
    \/ \E c \in {"MEDICINA", "INGENIERIA"}, g \in GruposCtor, t \in BOOLEAN :
          Registrar(Len(aspirantes) + 1, MinMedicina, c, g, t)
    \/ EjecutarAsignacionAutomatica

SpecCtor == Init /\ [][NextCtor]_vars
\* a program configured with any total of seats, then candidates and the batch
NextConfig ==
    \/ \E n \in 0..MaxCupos : Configurar("MEDICINA", n, MinMedicina)
    \/ \E a \in Semilla : Registrar(Len(aspirantes) + 1, a[1], a[2], a[3], a[4])
    \/ EjecutarAsignacionAutomatica

SpecConfig == InitConfig /\ [][NextConfig]_vars
\* the loop of main of the single-pool variant: option 2 on a listed candidate
NextPool ==
    \E i \in DOMAIN aspirantes, e \in EstadoCupo, n \in NombresCarrera :
        ProcesarEstado(i, e, n)

SpecPool == InitPool /\ [][NextPool]_vars
====
